---- MODULE Spec2Model ----
(***************************************************************************)
(* A model of parsejson (src/src/parsejson.h, src/src/parsejson.cpp): the  *)
(* recursive-descent parser parse_json with its scanners, the container    *)
(* parsers parse_array / parse_object, and the teardown destroy_json.      *)
(*                                                                         *)
(* The C++ call stack is the variable `stack`; a frame is one activation   *)
(* of parse_json, parse_array or parse_object.  One action runs a function *)
(* from where it stands to its next call, return or throw.  The heap of    *)
(* JSONItem objects is the sequence `heap`; a node is never removed from   *)
(* it, `freed` counts the times it was deleted.                            *)
(*                                                                         *)
(* Bytes are one-character strings.  Positions are 0-based as in the code. *)
(***************************************************************************)
EXTENDS Integers, Sequences, FiniteSets, TLC

VARIABLES
  raw_json,   \* ParseBuffer::raw_json, a sequence of bytes
  pos,        \* ParseBuffer::pos
  depth,      \* ParseBuffer::depth
  heap,       \* every JSONItem allocated so far, by address 1..Len(heap)
  stack,      \* the activations of parse_json / parse_array / parse_object
  ret,        \* the value the last completed call returned (a node or NULL)
  exc,        \* the ParseError in flight, by throw site (None: no exception)
  status,     \* the caller: running | returned | thrown | crashed | destroyed
  root,       \* what parse_json returned to the caller
  uaf,        \* destroy_json read a field of a node that was already deleted
  mem_after,  \* the bytes of memory behind raw_json's terminator, once read
  doc,        \* the JSON value the input is the text of (whole, padded
              \* and junk inputs; DNull for the others)
  shape       \* how the input was written from doc

vars == <<raw_json, pos, depth, heap, stack, ret, exc, status, root, uaf,
          mem_after, doc, shape>>

---------------------------------------------------------------------------
(* Bounds of the model. *)

\* JSON values the inputs are written from have at most this many nodes.
MaxNodes == 4
\* Arbitrary byte strings have at most this many bytes.
MaxRawLen == 4
\* A top-level string literal has at most this many characters or escapes.
MaxStrItems == 2
\* Bytes of readable memory behind the terminator of raw_json; the byte
\* after them is not mapped.
MaxOob == 1

\* parsejson.h lets the build define PARSER_NESTING_LIMIT (#ifndef, default
\* 1000); the model is the build with -DPARSER_NESTING_LIMIT=2.
PARSER_NESTING_LIMIT == 2

---------------------------------------------------------------------------
(* Bytes. *)

NULL == 0
None == "none"

\* std::string keeps a '\0' at raw_json[size()].
NUL == "NUL"
\* A read of a byte that is not mapped.
FAULT == "FAULT"

DQUOTE == "\""
BACKSLASH == "\\"

\* std::isspace in the "C" locale.
WhiteSpace == {" ", "TAB", "LF", "VT", "FF", "CR"}
\* std::isdigit.
Digits == {"0", "1", "2", "3", "4", "5", "6", "7", "8", "9"}

DigitValue(b) ==
  CASE b = "0" -> 0 [] b = "1" -> 1 [] b = "2" -> 2 [] b = "3" -> 3
    [] b = "4" -> 4 [] b = "5" -> 5 [] b = "6" -> 6 [] b = "7" -> 7
    [] b = "8" -> 8 [] b = "9" -> 9

\* raw_json[i] as the code reads it, with m the memory behind the
\* terminator: inside the string, the terminator, then whatever lies behind
\* it (undefined behaviour: any byte, or a fault).
Byte(m, i) ==
  IF i < Len(raw_json) THEN raw_json[i + 1]
  ELSE IF i = Len(raw_json) THEN NUL
  ELSE IF i - Len(raw_json) <= Len(m) THEN m[i - Len(raw_json)]
  ELSE FAULT

\* Reads inside the buffer.
At(i) == Byte(<<>>, i)

\* skip_whitespace: the position it leaves pos at, started at p.
RECURSIVE SkipWs(_, _)
SkipWs(m, p) == IF Byte(m, p) \in WhiteSpace THEN SkipWs(m, p + 1) ELSE p

can_read(p, bytes) == raw_json # <<>> /\ p + bytes <= Len(raw_json)

\* raw_json.compare(p, n, word) == 0: the at most n bytes from p are word.
Compare(p, n, word) ==
  LET last == IF p + n <= Len(raw_json) THEN p + n ELSE Len(raw_json)
  IN  p <= Len(raw_json) /\ SubSeq(raw_json, p + 1, last) = word

---------------------------------------------------------------------------
(* parse_number: strtod on the bytes from p.  The inputs hold signs and    *)
(* decimal digits only, so the longest prefix strtod converts is an        *)
(* optional sign and a run of digits.                                      *)

RECURSIVE DigitsEnd(_)
DigitsEnd(p) == IF At(p) \in Digits THEN DigitsEnd(p + 1) ELSE p

RECURSIVE DigitsVal(_, _, _)
DigitsVal(p, e, acc) ==
  IF p >= e THEN acc ELSE DigitsVal(p + 1, e, 10 * acc + DigitValue(At(p)))

parse_number(p) ==
  LET s == IF At(p) \in {"-", "+"} THEN p + 1 ELSE p
      e == DigitsEnd(s)
  IN  IF e = s
      THEN [err |-> "bad double", pos |-> p, val |-> 0]
      ELSE [err |-> None, pos |-> e,
            val |-> IF At(p) = "-" THEN 0 - DigitsVal(s, e, 0)
                    ELSE DigitsVal(s, e, 0)]

---------------------------------------------------------------------------
(* parse_string, entered behind the opening quote. *)

\* The escapes whose case ends in a break.
BreakEscapes == {"b", "f", "n", "r", "t"}

EscapeChar(e) ==
  CASE e = "b" -> "BS" [] e = "f" -> "FF" [] e = "n" -> "LF"
    [] e = "r" -> "CR" [] e = "t" -> "TAB"

\* The loop of parse_string.  The cases '"', '\\' and '/' append the byte
\* and, having no break, run on into default, which throws.
RECURSIVE StringLoop(_, _)
StringLoop(p, out) ==
  IF At(p) # DQUOTE /\ p < Len(raw_json)
  THEN IF At(p) # BACKSLASH
       THEN StringLoop(p + 1, Append(out, At(p)))
       ELSE IF Len(raw_json) - p < 2
       THEN [err |-> "prematurely terminated escape sequence",
             pos |-> p, out |-> out]
       ELSE IF At(p + 1) \in BreakEscapes
       THEN StringLoop(p + 2, Append(out, EscapeChar(At(p + 1))))
       ELSE [err |-> "unknown escape sequence", pos |-> p,
             out |-> IF At(p + 1) \in {DQUOTE, BACKSLASH, "/"}
                     THEN Append(out, At(p + 1)) ELSE out]
  ELSE \* consume closing '"' (also when the loop ended at the terminator)
       [err |-> None, pos |-> p + 1, out |-> out]

parse_string(p) == StringLoop(p, <<>>)

---------------------------------------------------------------------------
(* The heap of JSONItem objects. *)

\* new JSONItem(): the links are NULL and the strings empty; type and the
\* scalar fields other than the one the parser assigns are never read.
NewItem ==
  [next |-> NULL, prev |-> NULL, child |-> NULL, name |-> <<>>,
   type |-> "unset", double_val |-> 0, string_val |-> <<>>,
   bool_val |-> FALSE, freed |-> 0]

\* destroy_json with the next link read after the delete.
RECURSIVE DestroyJsonNextAfterDelete(_, _)
DestroyJsonNextAfterDelete(h, item) ==
  IF item = NULL THEN [heap |-> h, uaf |-> FALSE]
  ELSE LET sub  == IF h[item].child # NULL
                   THEN DestroyJsonNextAfterDelete(h, h[item].child)
                   ELSE [heap |-> h, uaf |-> FALSE]
           h2   == [sub.heap EXCEPT ![item].freed = @ + 1]
           next == h2[item].next
           rest == DestroyJsonNextAfterDelete(h2, next)
       IN  [heap |-> rest.heap,
            uaf  |-> h[item].freed > 0 \/ h2[item].freed > 0
                     \/ sub.uaf \/ rest.uaf]

\* destroy_json(item) on heap h: the heap it leaves, and whether it read a
\* field (item->next, item->child) of a node already deleted.
RECURSIVE DestroyJson(_, _)
DestroyJson(h, item) ==
  IF item = NULL THEN [heap |-> h, uaf |-> FALSE]
  ELSE LET next == h[item].next
           sub  == IF h[item].child # NULL
                   THEN DestroyJson(h, h[item].child)
                   ELSE [heap |-> h, uaf |-> FALSE]
           h2   == [sub.heap EXCEPT ![item].freed = @ + 1]
           rest == DestroyJson(h2, next)
       IN  [heap |-> rest.heap,
            uaf  |-> h[item].freed > 0 \/ sub.uaf \/ rest.uaf]

---------------------------------------------------------------------------
(* The call stack. *)

\* An activation: the function, where it stands, and its locals (item of
\* parse_json; head, current and name of parse_array / parse_object).
Frame(fn) ==
  [fn |-> fn, pc |-> "entry", item |-> NULL, head |-> NULL,
   current |-> NULL, name |-> <<>>]

Top == stack[Len(stack)]
Callers == SubSeq(stack, 1, Len(stack) - 1)

\* A return to the caller: the caller resumes behind its call.
Resumed(stk) ==
  IF stk = <<>> THEN stk ELSE [stk EXCEPT ![Len(stk)].pc = "returned"]

\* A ParseError leaves every activation that has no handler: parse_array
\* and parse_object have none, parse_json catches inside its try block.
RECURSIVE Unwound(_)
Unwound(stk) ==
  IF stk = <<>> \/ stk[Len(stk)].fn = "parse_json" THEN stk
  ELSE Unwound(SubSeq(stk, 1, Len(stk) - 1))

\* The state as a record, and a step as the record of what it changes.
Cur ==
  [pos |-> pos, depth |-> depth, heap |-> heap, stack |-> stack, ret |-> ret,
   exc |-> exc, status |-> status, root |-> root, uaf |-> uaf]

Apply(n, m) ==
  /\ pos' = n.pos
  /\ depth' = n.depth
  /\ heap' = n.heap
  /\ stack' = n.stack
  /\ ret' = n.ret
  /\ exc' = n.exc
  /\ status' = n.status
  /\ root' = n.root
  /\ uaf' = n.uaf
  /\ mem_after' = IF n.pos > Len(raw_json) THEN m ELSE mem_after
  /\ UNCHANGED <<raw_json, doc, shape>>

\* The callee returns v to the activation below it, or to the caller of
\* the outermost parse_json.
Return(c, v) ==
  [c EXCEPT !.stack = Resumed(Callers), !.ret = v,
            !.status = IF Callers = <<>> THEN "returned" ELSE "running",
            !.root = IF Callers = <<>> THEN v ELSE NULL]

\* The top activation throws e: the exception arrives at the nearest
\* parse_json below it, or at the caller.
Throw(c, e) ==
  [c EXCEPT !.stack = Unwound(Callers), !.exc = e,
            !.status = IF Unwound(Callers) = <<>> THEN "thrown"
                       ELSE "running"]

\* A read of a byte that is not mapped ends the process.
Crash(c) == [c EXCEPT !.stack = <<>>, !.status = "crashed"]

\* parse_json(input_buffer) is called.
Call(c, stk) == [c EXCEPT !.stack = Append(stk, Frame("parse_json"))]

\* The memory behind the terminator: unknown until a read reaches it, the
\* same bytes from then on.
OobBytes == {NUL, " ", ",", "]", "}"}
RECURSIVE SeqsOf(_, _)
SeqsOf(S, n) ==
  IF n = 0 THEN {<<>>}
  ELSE {Append(s, x) : s \in SeqsOf(S, n - 1), x \in S}

\* The memories a step is to be run with, n0 being its outcome with no
\* readable byte behind the terminator.  pos never decreases and a byte
\* behind the terminator is read only at or behind pos, so a step that
\* ends with pos inside the buffer has read none of the memory, and one
\* that starts with pos outside it reads the memory already fixed.
MemChoices(n0) ==
  IF pos > Len(raw_json) THEN {mem_after}
  ELSE IF n0.pos <= Len(raw_json) THEN {<<>>}
  ELSE SeqsOf(OobBytes, MaxOob)

---------------------------------------------------------------------------
(* parse_json. *)

\* parse_json from its entry to the end of the try block's if-chain: new
\* JSONItem, skip_whitespace, and the branch the next bytes select.  A
\* scalar is scanned here; for '[' and '{' parse_array / parse_object is
\* called.  A throw inside the try block is caught by ParseJsonCatch.
JsonDispatch(c) ==
  LET item == Len(heap) + 1
      p    == SkipWs(mem_after, pos)
      b    == At(p)
      with(type) == Append(heap, [NewItem EXCEPT !.type = type])
      frame(pc) == [stack EXCEPT ![Len(stack)].item = item,
                                 ![Len(stack)].pc = pc]
      inTry(h, q, e) ==
        [c EXCEPT !.heap = h, !.pos = q, !.exc = e,
                  !.stack = frame(IF e = None THEN "scanned" ELSE "in_try")]
  IN
  IF can_read(p, 1) /\ b = DQUOTE THEN
    LET s == parse_string(p + 1)
    IN  inTry(IF s.err = None
              THEN Append(heap, [NewItem EXCEPT !.type = "j_string",
                                                !.string_val = s.out])
              ELSE with("j_string"),
              s.pos, s.err)
  ELSE IF can_read(p, 1) /\ (b = "-" \/ b = "+" \/ b \in Digits) THEN
    LET d == parse_number(p)
    IN  inTry(IF d.err = None
              THEN Append(heap, [NewItem EXCEPT !.type = "j_number",
                                                !.double_val = d.val])
              ELSE with("j_number"),
              d.pos, d.err)
  ELSE IF can_read(p, 1) /\ b = "[" THEN
    [c EXCEPT !.heap = with("j_array"), !.pos = p + 1,
              !.stack = Append(frame("in_try"), Frame("parse_array"))]
  ELSE IF can_read(p, 1) /\ b = "{" THEN
    [c EXCEPT !.heap = with("j_object"), !.pos = p + 1,
              !.stack = Append(frame("in_try"), Frame("parse_object"))]
  ELSE IF can_read(p, 4) /\ Compare(p, 4, <<"n", "u", "l", "l">>) THEN
    inTry(with("j_null"), p + 4, None)
  ELSE IF can_read(p, 1) /\ Compare(p, 4, <<"t", "r", "u", "e">>) THEN
    inTry(Append(heap, [NewItem EXCEPT !.type = "j_bool",
                                       !.bool_val = TRUE]), p + 4, None)
  ELSE IF can_read(p, 1) /\ Compare(p, 5, <<"f", "a", "l", "s", "e">>) THEN
    inTry(Append(heap, [NewItem EXCEPT !.type = "j_bool",
                                       !.bool_val = FALSE]), p + 5, None)
  ELSE inTry(Append(heap, NewItem), p, "invalid json")

ParseJsonDispatch ==
  /\ status = "running"
  /\ exc = None
  /\ Top.fn = "parse_json"
  /\ Top.pc = "entry"
  /\ \E m \in MemChoices(JsonDispatch(Cur)) : Apply(JsonDispatch(Cur), m)

\* catch (ParseError &pe): destroy_json(item), then throw again.
JsonCatch(c) ==
  LET d == DestroyJson(heap, Top.item)
  IN  Throw([c EXCEPT !.heap = d.heap, !.uaf = uaf \/ d.uaf], exc)

ParseJsonCatch ==
  /\ status = "running"
  /\ exc # None
  /\ Top.fn = "parse_json"
  /\ Top.pc = "in_try"
  /\ Apply(JsonCatch(Cur), mem_after)

\* parse_json behind the try block: item->child is assigned when
\* parse_array / parse_object returned; skip_whitespace; the outermost
\* call (depth == 0) throws "trailing junk" unless pos is the size; return
\* item.  The throw is outside the try block: item is not destroyed.
JsonFinish(c, m) ==
  LET item == Top.item
      h    == IF Top.pc = "returned"
              THEN [heap EXCEPT ![item].child = ret] ELSE heap
      q    == SkipWs(m, pos)
      c1   == [c EXCEPT !.heap = h, !.pos = q]
  IN  IF Byte(m, q) = FAULT THEN Crash(c1)
      ELSE IF depth = 0 /\ q # Len(raw_json) THEN Throw(c1, "trailing junk")
      ELSE Return(c1, item)

ParseJsonFinish ==
  /\ status = "running"
  /\ exc = None
  /\ Top.fn = "parse_json"
  /\ Top.pc \in {"scanned", "returned"}
  /\ \E m \in MemChoices(JsonFinish(Cur, <<>>)) :
       Apply(JsonFinish(Cur, m), m)

---------------------------------------------------------------------------
(* parse_array. *)

\* Behind the loop of parse_array, with pos = p.
ArrayAfterLoop(c, m, p, head) ==
  IF Byte(m, p) = FAULT THEN Crash([c EXCEPT !.pos = p])
  ELSE IF Byte(m, p) # "]"
  THEN Throw([c EXCEPT !.pos = p], "unexpected EOF")
  ELSE Return([c EXCEPT !.pos = p + 1, !.depth = c.depth - 1], head)

\* The loop condition of parse_array at pos = p, and what follows it: the
\* next iteration up to its call of parse_json, or the code behind the loop.
ArrayLoop(c, m, p, head, current) ==
  IF Byte(m, p) = FAULT THEN Crash([c EXCEPT !.pos = p])
  ELSE IF Byte(m, p) # "]" /\ p < Len(raw_json)
  THEN Call([c EXCEPT !.pos = SkipWs(m, p)],
            [stack EXCEPT ![Len(stack)].pc = "in_loop",
                          ![Len(stack)].head = head,
                          ![Len(stack)].current = current])
  ELSE ArrayAfterLoop(c, m, p, head)

\* parse_array from its entry: depth++, the nesting limit, skip_whitespace,
\* the empty array (return NULL with ']' not consumed and depth not
\* decremented), else the loop.
ArrayEnter(c, m) ==
  LET c1 == [c EXCEPT !.depth = depth + 1]
      q  == SkipWs(m, pos)
  IN  IF depth + 1 > PARSER_NESTING_LIMIT
      THEN Throw(c1, "max nesting limit exceeded in array")
      ELSE IF Byte(m, q) = "]" THEN Return([c1 EXCEPT !.pos = q], NULL)
      ELSE ArrayLoop([c1 EXCEPT !.pos = q], m, q, NULL, NULL)

ParseArrayEnter ==
  /\ status = "running"
  /\ exc = None
  /\ Top.fn = "parse_array"
  /\ Top.pc = "entry"
  /\ \E m \in MemChoices(ArrayEnter(Cur, <<>>)) :
       Apply(ArrayEnter(Cur, m), m)

\* parse_array behind a call of parse_json that returned ret: link the new
\* item, skip_whitespace, ']' breaks, anything but ',' throws, ',' is
\* consumed and the loop condition is tested again.
ArrayElement(c, m) ==
  LET new  == ret
      head == IF Top.head = NULL THEN new ELSE Top.head
      h    == IF Top.head = NULL THEN heap
              ELSE [heap EXCEPT ![Top.current].next = new,
                                ![new].prev = Top.current]
      q    == SkipWs(m, pos)
      c1   == [c EXCEPT !.heap = h, !.pos = q]
  IN  IF Byte(m, q) = FAULT THEN Crash(c1)
      ELSE IF Byte(m, q) = "]" THEN ArrayAfterLoop(c1, m, q, head)
      ELSE IF Byte(m, q) # ","
      THEN Throw(c1, "invalid array continuation")
      ELSE ArrayLoop(c1, m, q + 1, head, new)

ParseArrayElement ==
  /\ status = "running"
  /\ exc = None
  /\ Top.fn = "parse_array"
  /\ Top.pc = "returned"
  /\ \E m \in MemChoices(ArrayElement(Cur, <<>>)) :
       Apply(ArrayElement(Cur, m), m)

---------------------------------------------------------------------------
(* parse_object. *)

\* Behind the loop of parse_object, with pos = p.
ObjectAfterLoop(c, m, p, head) ==
  IF Byte(m, p) = FAULT THEN Crash([c EXCEPT !.pos = p])
  ELSE IF Byte(m, p) # "}"
  THEN Throw([c EXCEPT !.pos = p], "unexpected EOF")
  ELSE Return([c EXCEPT !.pos = p + 1, !.depth = c.depth - 1], head)

\* One iteration of the loop of parse_object up to its call of parse_json:
\* the member name (a string literal) and the ':' behind it.
ObjectMember(c, m, p, head, current) ==
  LET q  == SkipWs(m, p)
      s  == parse_string(q + 1)
      q2 == SkipWs(m, s.pos)
  IN  IF ~can_read(q, 1) \/ At(q) # DQUOTE
      THEN Throw([c EXCEPT !.pos = q], "bad object member name")
      ELSE IF s.err # None THEN Throw([c EXCEPT !.pos = s.pos], s.err)
      ELSE IF Byte(m, q2) = FAULT THEN Crash([c EXCEPT !.pos = q2])
      ELSE IF ~can_read(q2, 1) \/ At(q2) # ":"
      THEN Throw([c EXCEPT !.pos = q2], "bad object name-value separation")
      ELSE Call([c EXCEPT !.pos = SkipWs(m, q2 + 1)],
                [stack EXCEPT ![Len(stack)].pc = "in_loop",
                              ![Len(stack)].head = head,
                              ![Len(stack)].current = current,
                              ![Len(stack)].name = s.out])

\* The loop condition of parse_object at pos = p, and what follows it.
ObjectLoop(c, m, p, head, current) ==
  IF Byte(m, p) = FAULT THEN Crash([c EXCEPT !.pos = p])
  ELSE IF Byte(m, p) # "}" /\ p < Len(raw_json)
  THEN ObjectMember(c, m, p, head, current)
  ELSE ObjectAfterLoop(c, m, p, head)

\* parse_object from its entry: depth++, the nesting limit,
\* skip_whitespace, the empty object (return NULL with '}' not consumed and
\* depth not decremented), else the loop.
ObjectEnter(c, m) ==
  LET c1 == [c EXCEPT !.depth = depth + 1]
      q  == SkipWs(m, pos)
  IN  IF depth + 1 > PARSER_NESTING_LIMIT
      THEN Throw(c1, "max nesting limit exceeded in object")
      ELSE IF Byte(m, q) = "}" THEN Return([c1 EXCEPT !.pos = q], NULL)
      ELSE ObjectLoop([c1 EXCEPT !.pos = q], m, q, NULL, NULL)

ParseObjectEnter ==
  /\ status = "running"
  /\ exc = None
  /\ Top.fn = "parse_object"
  /\ Top.pc = "entry"
  /\ \E m \in MemChoices(ObjectEnter(Cur, <<>>)) :
       Apply(ObjectEnter(Cur, m), m)

\* parse_object behind a call of parse_json that returned ret: link the new
\* item, swap the member name into it, skip_whitespace, '}' breaks,
\* anything but a readable ',' throws, ',' is consumed and the loop
\* condition is tested again.
ObjectElement(c, m) ==
  LET new  == ret
      head == IF Top.head = NULL THEN new ELSE Top.head
      h    == IF Top.head = NULL THEN heap
              ELSE [heap EXCEPT ![Top.current].next = new,
                                ![new].prev = Top.current]
      h2   == [h EXCEPT ![new].name = Top.name]
      q    == SkipWs(m, pos)
      c1   == [c EXCEPT !.heap = h2, !.pos = q]
  IN  IF Byte(m, q) = FAULT THEN Crash(c1)
      ELSE IF Byte(m, q) = "}" THEN ObjectAfterLoop(c1, m, q, head)
      ELSE IF ~can_read(q, 1) \/ At(q) # ","
      THEN Throw(c1, "invalid object continuation")
      ELSE ObjectLoop(c1, m, q + 1, head, new)

ParseObjectElement ==
  /\ status = "running"
  /\ exc = None
  /\ Top.fn = "parse_object"
  /\ Top.pc = "returned"
  /\ \E m \in MemChoices(ObjectElement(Cur, <<>>)) :
       Apply(ObjectElement(Cur, m), m)

---------------------------------------------------------------------------
(* The caller (test_parser.cpp): parse_json on a fresh ParseBuffer, and    *)
(* destroy_json on the tree when parse_json returned one.                  *)

DestroyRoot ==
  /\ status = "returned"
  /\ LET d == DestroyJson(heap, root)
     IN  Apply([Cur EXCEPT !.heap = d.heap, !.uaf = uaf \/ d.uaf,
                           !.status = "destroyed"], mem_after)

---------------------------------------------------------------------------
(* The inputs.  A JSON value (doc) is written out as text; the parser is   *)
(* run on the text as it stands, with blanks around it, with a byte behind *)
(* it, cut short, and on every short string of structural bytes.           *)

DNum(n)  == [kind |-> "j_number", num |-> n, str |-> <<>>, bool |-> FALSE,
             elems |-> <<>>]
DStr(s)  == [kind |-> "j_string", num |-> 0, str |-> s, bool |-> FALSE,
             elems |-> <<>>]
DBool(b) == [kind |-> "j_bool", num |-> 0, str |-> <<>>, bool |-> b,
             elems |-> <<>>]
DNull    == [kind |-> "j_null", num |-> 0, str |-> <<>>, bool |-> FALSE,
             elems |-> <<>>]
DArr(es) == [kind |-> "j_array", num |-> 0, str |-> <<>>, bool |-> FALSE,
             elems |-> es]
DObj(es) == [kind |-> "j_object", num |-> 0, str |-> <<>>, bool |-> FALSE,
             elems |-> es]

\* A string literal is a sequence of items: a plain character, or a
\* backslash and an escape byte ("u" stands for the unsupported escapes).
EscapeBytes == {"b", "f", "n", "r", "t", DQUOTE, BACKSLASH, "/", "u"}
StrItems == {<<"x">>} \cup {<<BACKSLASH, e>> : e \in EscapeBytes}
StrDocs == {DStr(s) : s \in UNION {SeqsOf(StrItems, n) : n \in 0..MaxStrItems}}

NestedScalars == {DNum(1), DStr(<< <<"x">> >>), DNull}
Leaves == NestedScalars \cup {DArr(<<>>), DObj(<<>>)}

\* The values of exactly n nodes, and the non-empty sequences of values of
\* exactly n nodes together.
RECURSIVE DocsOfSize(_), ForestsOfSize(_)
DocsOfSize(n) ==
  IF n = 1 THEN Leaves
  ELSE {DArr(f) : f \in ForestsOfSize(n - 1)}
       \cup {DObj(f) : f \in ForestsOfSize(n - 1)}
ForestsOfSize(n) ==
  UNION {{<<d>> \o r : d \in DocsOfSize(k),
                       r \in IF k = n THEN {<<>>} ELSE ForestsOfSize(n - k)}
         : k \in 1..n}

TreeDocs == UNION {DocsOfSize(n) : n \in 1..MaxNodes}
ScalarDocs ==
  {DNum(0 - 1), DNum(11), DBool(TRUE), DBool(FALSE)} \cup StrDocs
AllDocs == TreeDocs \cup ScalarDocs

\* The name of the i-th member of an object: "k", "kk", ...
MemberName(i) == [j \in 1..i |-> "k"]

RECURSIVE Flatten(_)
Flatten(ss) == IF ss = <<>> THEN <<>> ELSE Head(ss) \o Flatten(Tail(ss))

DigitByte(d) == CHOOSE b \in Digits : DigitValue(b) = d
RECURSIVE NatDigits(_)
NatDigits(n) ==
  IF n < 10 THEN <<DigitByte(n)>>
  ELSE NatDigits(n \div 10) \o <<DigitByte(n % 10)>>

\* The text of a value, with no blanks.
RECURSIVE Render(_), RenderElems(_, _)
Render(d) ==
  CASE d.kind = "j_number" ->
         IF d.num < 0 THEN <<"-">> \o NatDigits(0 - d.num) ELSE NatDigits(d.num)
    [] d.kind = "j_string" -> <<DQUOTE>> \o Flatten(d.str) \o <<DQUOTE>>
    [] d.kind = "j_bool" ->
         IF d.bool THEN <<"t", "r", "u", "e">> ELSE <<"f", "a", "l", "s", "e">>
    [] d.kind = "j_null" -> <<"n", "u", "l", "l">>
    [] d.kind = "j_array" -> <<"[">> \o RenderElems(d, 1) \o <<"]">>
    [] d.kind = "j_object" -> <<"{">> \o RenderElems(d, 1) \o <<"}">>
RenderElems(d, i) ==
  IF i > Len(d.elems) THEN <<>>
  ELSE (IF i > 1 THEN <<",">> ELSE <<>>)
       \o (IF d.kind = "j_object"
           THEN <<DQUOTE>> \o MemberName(i) \o <<DQUOTE, ":">> ELSE <<>>)
       \o Render(d.elems[i])
       \o RenderElems(d, i + 1)

JunkBytes == {"x", "]"}
RawBytes == {"[", "]", "{", "}", ",", ":", DQUOTE, " ", "1", "x"}

\* The texts written from value d, each with how it was written: as it
\* stands, with a blank before and behind it, with one more byte behind
\* it, and cut short behind its n-th byte.
Variants(d) ==
  LET text == Render(d)
  IN  {<<"whole", text>>, <<"padded", <<" ">> \o text \o <<" ">> >>}
      \cup {<<"junk", Append(text, j)>> : j \in JunkBytes}
      \cup {<<"prefix", SubSeq(text, 1, n)>> : n \in 1..(Len(text) - 1)}

\* The caller has made a ParseBuffer of the input (pos = 0, depth = 0) and
\* called parse_json on it.
Init ==
  /\ \/ \E d \in AllDocs : \E v \in Variants(d) :
          /\ shape = v[1]
          /\ raw_json = v[2]
          /\ doc = IF v[1] = "prefix" THEN DNull ELSE d
     \/ \E n \in 0..MaxRawLen : \E r \in [1..n -> RawBytes] :
          doc = DNull /\ shape = "raw" /\ raw_json = r
  /\ pos = 0
  /\ depth = 0
  /\ heap = <<>>
  /\ stack = <<Frame("parse_json")>>
  /\ ret = NULL
  /\ exc = None
  /\ status = "running"
  /\ root = NULL
  /\ uaf = FALSE
  /\ mem_after = <<>>

Next ==
  \/ ParseJsonDispatch
  \/ ParseJsonCatch
  \/ ParseJsonFinish
  \/ ParseArrayEnter
  \/ ParseArrayElement
  \/ ParseObjectEnter
  \/ ParseObjectElement
  \/ DestroyRoot

Spec == Init /\ [][Next]_vars

---------------------------------------------------------------------------
(* What the claims speak of. *)

\* The call of parse_json has ended: it returned a node, or a ParseError
\* reached the caller.
Returned == status \in {"returned", "destroyed"}
Thrown == status = "thrown"
Ended == status \in {"returned", "destroyed", "thrown", "crashed"}

\* The input is the text of doc, at most with blanks around it.
WholeText == shape \in {"whole", "padded"}

\* No string literal of d holds an escape.
RECURSIVE NoEscapes(_)
NoEscapes(d) ==
  /\ \A i \in 1..Len(d.str) : Len(d.str[i]) = 1
  /\ \A i \in 1..Len(d.elems) : NoEscapes(d.elems[i])

\* The escapes parse_string is to accept, and the character each stands for.
RecognizedEscapes == {"b", "f", "n", "r", "t", DQUOTE, BACKSLASH, "/"}
Unescaped(item) ==
  IF Len(item) = 1 THEN item[1]
  ELSE CASE item[2] = "b" -> "BS" [] item[2] = "f" -> "FF"
         [] item[2] = "n" -> "LF" [] item[2] = "r" -> "CR"
         [] item[2] = "t" -> "TAB" [] OTHER -> item[2]
Decoded(items) == [i \in 1..Len(items) |-> Unescaped(items[i])]
AllRecognized(items) ==
  \A i \in 1..Len(items) :
     Len(items[i]) = 1 \/ items[i][2] \in RecognizedEscapes

\* The scalar of node item is that of value d.
ScalarMatches(item, d) ==
  /\ heap[item].type = d.kind
  /\ d.kind = "j_number" => heap[item].double_val = d.num
  /\ d.kind = "j_string" => heap[item].string_val = Decoded(d.str)
  /\ d.kind = "j_bool" => heap[item].bool_val = d.bool

\* The tree at node item is that of value d, its name is name, and every
\* child chain holds the elements of its container in order, each prev
\* being the node before.
RECURSIVE NodeMatches(_, _, _), ChainMatches(_, _, _, _)
NodeMatches(item, d, name) ==
  /\ item # NULL
  /\ ScalarMatches(item, d)
  /\ heap[item].name = name
  /\ IF d.kind \in {"j_array", "j_object"}
     THEN ChainMatches(heap[item].child, NULL, d, 1)
     ELSE heap[item].child = NULL
ChainMatches(item, prev, d, i) ==
  IF i > Len(d.elems) THEN item = NULL
  ELSE /\ item # NULL
       /\ heap[item].prev = prev
       /\ NodeMatches(item, d.elems[i],
                      IF d.kind = "j_object" THEN MemberName(i) ELSE <<>>)
       /\ ChainMatches(heap[item].next, item, d, i + 1)

\* How deep the containers of d are nested: 0 for a scalar.
RECURSIVE Nesting(_), MaxNesting(_, _)
Nesting(d) ==
  IF d.kind \in {"j_array", "j_object"} THEN 1 + MaxNesting(d.elems, 1) ELSE 0
MaxNesting(es, i) ==
  IF i > Len(es) THEN 0
  ELSE LET a == Nesting(es[i])
           b == MaxNesting(es, i + 1)
       IN  IF a > b THEN a ELSE b

NestingErrors ==
  {"max nesting limit exceeded in array",
   "max nesting limit exceeded in object"}

\* The activations of parse_array / parse_object on the stack.
RECURSIVE OpenContainers(_)
OpenContainers(stk) ==
  IF stk = <<>> THEN 0
  ELSE (IF stk[Len(stk)].fn = "parse_json" THEN 0 ELSE 1)
       + OpenContainers(SubSeq(stk, 1, Len(stk) - 1))

\* The nodes of the tree at item: item, its next chain, and their children.
RECURSIVE Reach(_, _)
Reach(h, item) ==
  IF item = NULL THEN {}
  ELSE {item} \cup Reach(h, h[item].child) \cup Reach(h, h[item].next)

---------------------------------------------------------------------------
(* The claims. *)

\* C1: a complete top-level value followed by a non-blank byte makes
\* parse_json fail with "trailing junk" and return no node, whatever the
\* kind of the value (an empty array or object included).
C1_TrailingJunk ==
  (shape = "junk" /\ NoEscapes(doc) /\ Ended)
    => (Thrown /\ exc = "trailing junk" /\ root = NULL)

\* C2: on a well-formed text parse_json succeeds, consumes the whole input
\* and returns a root whose kind and decoded scalar are those of the text.
C2_WellFormedParses ==
  (WholeText /\ NoEscapes(doc) /\ Ended)
    => (Returned /\ pos = Len(raw_json) /\ root # NULL
        /\ ScalarMatches(root, doc))

\* C3: in a tree parse_json returned, every child chain holds the elements
\* of its container, as many and in source order, prev is the node before,
\* and a node has a name exactly when its parent is an object.
C3_ChainsMatchSource ==
  (WholeText /\ NoEscapes(doc) /\ status = "returned")
    => NodeMatches(root, doc, <<>>)

\* C4: when parse_json, started with depth = 0, has ended (returned or
\* thrown), depth is 0 again; and when parse_array / parse_object has
\* returned, depth is what it was at the call: the number of containers
\* still open.
C4_DepthRestored ==
  /\ (status \in {"returned", "thrown"}) => depth = 0
  /\ (status = "running" /\ exc = None /\ Top.fn = "parse_json"
      /\ Top.pc = "returned") => depth = OpenContainers(stack)

\* C5: when parse_json has failed, every JSONItem allocated during the call
\* has been freed exactly once.
C5_FailureFreesAll ==
  Thrown => \A n \in 1..Len(heap) : heap[n].freed = 1

\* C6: destroy_json on the root of a returned tree frees every node
\* reachable through child and next exactly once, reads no field of a node
\* already freed and leaves no node allocated; on every returned tree, none
\* of whose nodes is freed yet, the walk of destroy_json ends with that
\* result.
C6_DestroyFreesTreeOnce ==
  /\ status = "destroyed" =>
       /\ ~uaf
       /\ \A n \in Reach(heap, root) : heap[n].freed = 1
       /\ \A n \in 1..Len(heap) : heap[n].freed = 1
  /\ status = "returned" =>
       /\ \A n \in 1..Len(heap) : heap[n].freed = 0
       /\ LET d == DestroyJson(heap, root)
          IN  ~d.uaf /\ \A n \in 1..Len(heap) : d.heap[n].freed = 1

\* A returned tree with a node that has both a child and a next sibling
\* has been destroyed.
C6_Witness ==
  /\ status = "destroyed"
  /\ \E n \in 1..Len(heap) :
       /\ heap[n].child # NULL
       /\ heap[n].next # NULL
       /\ heap[heap[n].child].freed = 1
       /\ heap[heap[n].next].freed = 1

\* C7: a string literal whose escapes are all recognized is scanned to its
\* end, each escape giving its character; "unknown escape sequence" is
\* thrown only at a backslash followed by a byte outside the recognized set.
C7_RecognizedEscapes ==
  /\ (shape = "whole" /\ doc.kind = "j_string" /\ AllRecognized(doc.str)
      /\ Ended)
       => (Returned /\ pos = Len(raw_json)
           /\ heap[root].string_val = Decoded(doc.str))
  /\ exc = "unknown escape sequence"
       => raw_json[pos + 2] \notin RecognizedEscapes

\* C8: behind a ',' it has consumed, parse_array / parse_object parses one
\* more element before it accepts the close byte: the step that consumes
\* the ',' does not return from the container.
C8_CommaThenElement ==
  [][(/\ status = "running"
      /\ exc = None
      /\ Top.fn \in {"parse_array", "parse_object"}
      /\ Top.pc = "returned"
      /\ SkipWs(<<>>, pos) < Len(raw_json)
      /\ At(SkipWs(<<>>, pos)) = ",")
     => ~(/\ exc' = None
          /\ status' = "running"
          /\ Len(stack') < Len(stack))]_vars

\* C9: a well-formed text nested at most PARSER_NESTING_LIMIT deep is
\* parsed without a nesting-limit error, and one nested deeper fails with
\* it.
C9_NestingLimit ==
  (shape = "whole" /\ NoEscapes(doc) /\ Ended)
    => IF Nesting(doc) <= PARSER_NESTING_LIMIT
       THEN exc \notin NestingErrors
       ELSE Thrown /\ exc \in NestingErrors

\* C10: pos stays within 0..len(bytes).
C10_PosInBounds == 0 <= pos /\ pos <= Len(raw_json)

====
